---- MODULE Spec2Model ----
(***************************************************************************)
(* Model of the Google-Docs-to-HTML Lambda function (src/tmp.py).          *)
(*                                                                         *)
(* A Python str is a sequence of tokens: a token is one character of text  *)
(* ("a", " ", "\n") or one piece of literal markup of the source           *)
(* ("<p>", "</span>", ...).  A Python dict is a function whose domain is   *)
(* the set of keys that are present; a Python list is a sequence.          *)
(***************************************************************************)
EXTENDS Integers, Sequences, FiniteSets, TLC

VARIABLES
    document,     \* the Docs API document being rendered
    html_parts,   \* convert_google_doc_to_html: the list of output lines
    idx,          \* convert_google_doc_to_html: position of `for element in content`
    pc,           \* convert_google_doc_to_html: "idle" | "loop" | "done"
    html_content, \* the string returned by convert_google_doc_to_html
    event,        \* lambda_handler: the event argument
    environ,      \* os.environ
    hpc,          \* lambda_handler: position in the handler
    doc_name,     \* lambda_handler: local doc_name
    doc_id,       \* lambda_handler: local doc_id
    calls,        \* the calls made so far to the Google services and the renderer
    provider_error, \* the HttpError the provider raised in this run, if any
    response      \* the dict lambda_handler returned

vars == <<document, html_parts, idx, pc, html_content, event, environ, hpc,
          doc_name, doc_id, calls, provider_error, response>>

render_vars == <<document, html_parts, idx, pc, html_content>>
handler_vars == <<event, environ, hpc, doc_name, doc_id, calls, provider_error, response>>

-----------------------------------------------------------------------------
(* Python values *)

EmptyDict == [k \in {} |-> TRUE]

\* Values whose Python type varies carry their type as their one key.
PyNone == [NoneType |-> TRUE]

PyStr(s) == [str |-> s]

PyDict(d) == [dict |-> d]

Truthy(v) ==
    IF "str" \in DOMAIN v THEN v.str # ""
    ELSE IF "dict" \in DOMAIN v THEN DOMAIN v.dict # {}
    ELSE FALSE

get(d, k, default) == IF k \in DOMAIN d THEN d[k] ELSE default

Whitespace == {" ", "\n"}

RECURSIVE lstrip(_)
lstrip(s) ==
    IF Len(s) > 0 /\ Head(s) \in Whitespace THEN lstrip(Tail(s)) ELSE s

RECURSIVE rstrip(_)
rstrip(s) ==
    IF Len(s) > 0 /\ s[Len(s)] \in Whitespace
    THEN rstrip(SubSeq(s, 1, Len(s) - 1))
    ELSE s

strip(s) == rstrip(lstrip(s))

RECURSIVE join(_)
join(parts) ==
    IF Len(parts) = 0 THEN <<>> ELSE Head(parts) \o join(Tail(parts))

RECURSIVE newline_join(_)
newline_join(parts) ==
    IF Len(parts) = 0 THEN <<>>
    ELSE IF Len(parts) = 1 THEN Head(parts)
    ELSE Head(parts) \o <<"\n">> \o newline_join(Tail(parts))

-----------------------------------------------------------------------------
(* convert_google_doc_to_html *)

title_of(doc) == get(doc, "title", <<"Untitled Document">>)

content_of(doc) == get(get(doc, "body", EmptyDict), "content", <<>>)

html_head(title) ==
    << <<"<!DOCTYPE html>">>,
       <<"<html>">>,
       <<"<head>">>,
       <<"<title>">> \o title \o <<"</title>">>,
       <<"<meta charset=\"UTF-8\">">>,
       <<"<style>">>,
       <<"body { font-family: Arial, sans-serif; max-width: 800px; margin: 40px auto; padding: 20px; line-height: 1.6; }">>,
       <<"h1 { font-size: 24px; margin-top: 20px; margin-bottom: 10px; }">>,
       <<"h2 { font-size: 20px; margin-top: 18px; margin-bottom: 8px; }">>,
       <<"h3 { font-size: 16px; margin-top: 16px; margin-bottom: 6px; }">>,
       <<"p { margin: 10px 0; }">>,
       <<"ul, ol { margin: 10px 0; padding-left: 30px; }">>,
       <<"li { margin: 5px 0; }">>,
       <<".bold { font-weight: bold; }">>,
       <<".italic { font-style: italic; }">>,
       <<".underline { text-decoration: underline; }">>,
       <<"</style>">>,
       <<"</head>">>,
       <<"<body>">>,
       <<"<h1>">> \o title \o <<"</h1>">> >>

html_tail == << <<"</body>">>, <<"</html>">> >>

\* A run without 'content' read with .get('content'): the f-string prints None.
content_text_no_default(text_run) == get(text_run, "content", <<"None">>)

content_text(text_run) == get(text_run, "content", <<>>)

text_style(text_run) == get(text_run, "textStyle", EmptyDict)

\* The italic wrapper applied before the bold one.
styled_text_italic_first(text_run) ==
    LET s0 == content_text(text_run)
        s1 == IF get(text_style(text_run), "italic", FALSE) = TRUE
              THEN <<"<span class=\"italic\">">> \o s0 \o <<"</span>">> ELSE s0
        s2 == IF get(text_style(text_run), "bold", FALSE) = TRUE
              THEN <<"<span class=\"bold\">">> \o s1 \o <<"</span>">> ELSE s1
        s3 == IF get(text_style(text_run), "underline", FALSE) = TRUE
              THEN <<"<span class=\"underline\">">> \o s2 \o <<"</span>">> ELSE s2
    IN  s3

styled_text(text_run) ==
    LET s0 == content_text(text_run)
        s1 == IF get(text_style(text_run), "bold", FALSE) = TRUE
              THEN <<"<span class=\"bold\">">> \o s0 \o <<"</span>">> ELSE s0
        s2 == IF get(text_style(text_run), "italic", FALSE) = TRUE
              THEN <<"<span class=\"italic\">">> \o s1 \o <<"</span>">> ELSE s1
        s3 == IF get(text_style(text_run), "underline", FALSE) = TRUE
              THEN <<"<span class=\"underline\">">> \o s2 \o <<"</span>">> ELSE s2
    IN  s3

RECURSIVE text_parts(_)
text_parts(para_elements) ==
    IF Len(para_elements) = 0 THEN <<>>
    ELSE LET elem == Head(para_elements)
             rest == text_parts(Tail(para_elements))
         IN  IF "textRun" \in DOMAIN elem
             THEN <<styled_text(elem.textRun)>> \o rest
             ELSE rest

para_elements_of(paragraph) == get(paragraph, "elements", <<>>)

named_style(paragraph) ==
    get(get(paragraph, "paragraphStyle", EmptyDict), "namedStyleType", "NORMAL_TEXT")

\* The joined markup used without .strip().
combined_text_unstripped(paragraph) == join(text_parts(para_elements_of(paragraph)))

combined_text(paragraph) == strip(join(text_parts(para_elements_of(paragraph))))

\* The HEADING_3 branch missing.
paragraph_parts_no_h3(paragraph) ==
    LET text == combined_text(paragraph)
        style == named_style(paragraph)
    IN  IF Len(text) > 0
        THEN IF style = "HEADING_1" THEN << <<"<h1>">> \o text \o <<"</h1>">> >>
             ELSE IF style = "HEADING_2" THEN << <<"<h2>">> \o text \o <<"</h2>">> >>
             ELSE << <<"<p>">> \o text \o <<"</p>">> >>
        ELSE <<>>

paragraph_parts(paragraph) ==
    LET text == combined_text(paragraph)
        style == named_style(paragraph)
    IN  IF Len(text) > 0
        THEN IF style = "HEADING_1" THEN << <<"<h1>">> \o text \o <<"</h1>">> >>
             ELSE IF style = "HEADING_2" THEN << <<"<h2>">> \o text \o <<"</h2>">> >>
             ELSE IF style = "HEADING_3" THEN << <<"<h3>">> \o text \o <<"</h3>">> >>
             ELSE << <<"<p>">> \o text \o <<"</p>">> >>
        ELSE <<>>

RECURSIVE run_contents(_)
run_contents(para_elems) ==
    IF Len(para_elems) = 0 THEN <<>>
    ELSE LET pe == Head(para_elems)
             rest == run_contents(Tail(para_elems))
         IN  IF "textRun" \in DOMAIN pe
             THEN <<get(pe.textRun, "content", <<>>)>> \o rest
             ELSE rest

\* Only the first block of a cell read.
cell_content_first_block(cell_elems) ==
    IF Len(cell_elems) = 0 THEN <<>>
    ELSE IF "paragraph" \in DOMAIN Head(cell_elems)
         THEN run_contents(get(Head(cell_elems).paragraph, "elements", <<>>))
         ELSE <<>>

RECURSIVE cell_content(_)
cell_content(cell_elems) ==
    IF Len(cell_elems) = 0 THEN <<>>
    ELSE LET cell_elem == Head(cell_elems)
             rest == cell_content(Tail(cell_elems))
         IN  IF "paragraph" \in DOMAIN cell_elem
             THEN run_contents(get(cell_elem.paragraph, "elements", <<>>)) \o rest
             ELSE rest

cell_part(cell) ==
    <<"<td>">> \o strip(join(cell_content(get(cell, "content", <<>>)))) \o <<"</td>">>

RECURSIVE cell_parts(_)
cell_parts(cells) ==
    IF Len(cells) = 0 THEN <<>>
    ELSE <<cell_part(Head(cells))>> \o cell_parts(Tail(cells))

row_parts(row) ==
    << <<"<tr>">> >> \o cell_parts(get(row, "tableCells", <<>>)) \o << <<"</tr>">> >>

RECURSIVE rows_parts(_)
rows_parts(rows) ==
    IF Len(rows) = 0 THEN <<>>
    ELSE row_parts(Head(rows)) \o rows_parts(Tail(rows))

table_parts(table) ==
    << <<"<table border=\"1\" cellpadding=\"5\" cellspacing=\"0\">">> >>
    \o rows_parts(get(table, "tableRows", <<>>))
    \o << <<"</table>">> >>

element_parts(element) ==
    IF "paragraph" \in DOMAIN element THEN paragraph_parts(element.paragraph)
    ELSE IF "table" \in DOMAIN element THEN table_parts(element.table)
    ELSE <<>>

RECURSIVE body_parts(_)
body_parts(elements) ==
    IF Len(elements) = 0 THEN <<>>
    ELSE element_parts(Head(elements)) \o body_parts(Tail(elements))

convert_google_doc_to_html(doc) ==
    newline_join(html_head(title_of(doc)) \o body_parts(content_of(doc)) \o html_tail)

-----------------------------------------------------------------------------
(* The documents the renderer is applied to: Docs API documents, in which   *)
(* every optional field may be absent.                                     *)

MaxRuns == 2
MaxElements == 2
MaxBlocks == 2
MaxCells == 2
MaxRows == 2

SeqsUpTo(S, lo, hi) == UNION {[1..n -> S] : n \in lo..hi}

Texts == {<<>>, <<" ">>, <<"\n">>, <<"a">>, <<" ", "a", "\n">>, <<"b", " ">>, <<"a", " ", "b">>}

TextStyles ==
    [bold : BOOLEAN, italic : BOOLEAN, underline : BOOLEAN]
    \cup {EmptyDict, [bold |-> TRUE], [italic |-> TRUE], [underline |-> TRUE]}

TextRuns ==
    {[content |-> t, textStyle |-> s] : t \in Texts, s \in TextStyles}
    \cup {[content |-> t] : t \in Texts}
    \cup {[textStyle |-> [bold |-> TRUE]], EmptyDict}

ParaElements ==
    {[textRun |-> r] : r \in TextRuns} \cup {[inlineObjectElement |-> EmptyDict]}

SmallParaElements ==
    { [textRun |-> [content |-> <<" ">>, textStyle |-> EmptyDict]],
      [textRun |-> [content |-> <<" ", "a", "\n">>]],
      [textRun |-> [content |-> <<"b", " ">>,
                    textStyle |-> [bold |-> TRUE, italic |-> FALSE, underline |-> TRUE]]],
      [textRun |-> [content |-> <<"\n">>, textStyle |-> [italic |-> TRUE]]],
      [textRun |-> [content |-> <<"a">>, textStyle |-> [bold |-> FALSE]]],
      [textRun |-> [textStyle |-> [underline |-> TRUE]]],
      [textRun |-> [content |-> <<"\n">>]],
      [inlineObjectElement |-> EmptyDict] }

ParaElementSeqs ==
    SeqsUpTo(ParaElements, 0, 1) \cup SeqsUpTo(SmallParaElements, 2, MaxRuns)

ParagraphStyles ==
    {[namedStyleType |-> s] :
        s \in {"NORMAL_TEXT", "HEADING_1", "HEADING_2", "HEADING_3", "TITLE"}}
    \cup {EmptyDict}

Paragraphs ==
    {[elements |-> es, paragraphStyle |-> ps] : es \in ParaElementSeqs, ps \in ParagraphStyles}
    \cup {[elements |-> es] : es \in ParaElementSeqs}
    \cup {[paragraphStyle |-> ps] : ps \in ParagraphStyles}
    \cup {EmptyDict}

CellBlocks ==
    { [paragraph |-> [elements |-> <<[textRun |-> [content |-> <<"a">>,
                          textStyle |-> [bold |-> TRUE, italic |-> TRUE, underline |-> TRUE]]]>>,
                      paragraphStyle |-> [namedStyleType |-> "HEADING_1"]]],
      [paragraph |-> [elements |-> <<[textRun |-> [content |-> <<" ", "b">>]],
                                     [textRun |-> [content |-> <<"\n">>]]>>]],
      [paragraph |-> [elements |-> <<[inlineObjectElement |-> EmptyDict], [textRun |-> EmptyDict]>>]],
      [paragraph |-> EmptyDict],
      [table |-> EmptyDict] }

Cells ==
    {[content |-> bs] : bs \in SeqsUpTo(CellBlocks, 0, MaxBlocks)} \cup {EmptyDict}

SmallCells ==
    { [content |-> <<CellBlocks1>>] : CellBlocks1 \in
        { [paragraph |-> [elements |-> <<[textRun |-> [content |-> <<"a">>,
                              textStyle |-> [bold |-> TRUE]]]>>]],
          [paragraph |-> [elements |-> <<[textRun |-> [content |-> <<"b", " ">>]]>>]] } }
    \cup {EmptyDict}

Rows ==
    {[tableCells |-> cs] : cs \in SeqsUpTo(Cells, 0, 1) \cup SeqsUpTo(SmallCells, 2, MaxCells)}
    \cup {EmptyDict}

SmallRows ==
    { [tableCells |-> cs] : cs \in
        { << [content |-> <<[paragraph |-> [elements |-> <<[textRun |-> [content |-> <<"a">>]]>>]]>>] >>,
          << [content |-> <<[paragraph |-> [elements |-> <<[textRun |-> [content |-> <<"b">>]]>>]]>>],
             [content |-> <<>>] >> } }
    \cup {EmptyDict}

Tables ==
    {[tableRows |-> rs] : rs \in SeqsUpTo(Rows, 0, 1) \cup SeqsUpTo(SmallRows, 2, MaxRows)}
    \cup {EmptyDict}

Elements ==
    {[paragraph |-> p] : p \in Paragraphs}
    \cup {[table |-> t] : t \in Tables}
    \cup {[sectionBreak |-> EmptyDict]}

SmallElements ==
    { [paragraph |-> [elements |-> <<[textRun |-> [content |-> <<"a", "\n">>]]>>,
                      paragraphStyle |-> [namedStyleType |-> "NORMAL_TEXT"]]],
      [paragraph |-> [elements |-> <<[textRun |-> [content |-> <<"\n">>]]>>,
                      paragraphStyle |-> [namedStyleType |-> "HEADING_1"]]],
      [paragraph |-> [elements |-> <<[textRun |-> [content |-> <<"b">>,
                                                   textStyle |-> [bold |-> TRUE]]]>>,
                      paragraphStyle |-> [namedStyleType |-> "HEADING_2"]]],
      [table |-> [tableRows |-> << [tableCells |-> << [content |->
            <<[paragraph |-> [elements |-> <<[textRun |-> [content |-> <<"c">>]]>>]]>>] >>] >>]],
      [sectionBreak |-> EmptyDict] }

Contents ==
    SeqsUpTo(Elements, 0, 1) \cup SeqsUpTo(SmallElements, 2, MaxElements)

Documents ==
    {[title |-> <<"T">>, body |-> [content |-> c]] : c \in Contents}
    \cup {[body |-> [content |-> c]] : c \in SeqsUpTo(SmallElements, 0, 1)}
    \cup {[title |-> <<"T">>, body |-> EmptyDict], [title |-> <<"T">>], EmptyDict}

-----------------------------------------------------------------------------
(* convert_google_doc_to_html as the loop it is *)

content == content_of(document)

Enter(doc) ==
    /\ document' = doc
    /\ html_parts' = html_head(title_of(doc))
    /\ idx' = 1
    /\ pc' = "loop"
    /\ html_content' = <<>>

RenderParagraph ==
    /\ pc = "loop"
    /\ idx <= Len(content)
    /\ "paragraph" \in DOMAIN content[idx]
    /\ html_parts' = html_parts \o paragraph_parts(content[idx].paragraph)
    /\ idx' = idx + 1
    /\ UNCHANGED <<document, pc, html_content>>
    /\ UNCHANGED handler_vars

\* The table put in front of the nodes already emitted.
RenderTableFirst ==
    /\ pc = "loop"
    /\ idx <= Len(content)
    /\ "paragraph" \notin DOMAIN content[idx]
    /\ "table" \in DOMAIN content[idx]
    /\ html_parts' = html_head(title_of(document)) \o table_parts(content[idx].table)
                        \o SubSeq(html_parts, Len(html_head(title_of(document))) + 1, Len(html_parts))
    /\ idx' = idx + 1
    /\ UNCHANGED <<document, pc, html_content>>
    /\ UNCHANGED handler_vars

RenderTable ==
    /\ pc = "loop"
    /\ idx <= Len(content)
    /\ "paragraph" \notin DOMAIN content[idx]
    /\ "table" \in DOMAIN content[idx]
    /\ html_parts' = html_parts \o table_parts(content[idx].table)
    /\ idx' = idx + 1
    /\ UNCHANGED <<document, pc, html_content>>
    /\ UNCHANGED handler_vars

SkipElement ==
    /\ pc = "loop"
    /\ idx <= Len(content)
    /\ "paragraph" \notin DOMAIN content[idx]
    /\ "table" \notin DOMAIN content[idx]
    /\ idx' = idx + 1
    /\ UNCHANGED <<document, html_parts, pc, html_content>>
    /\ UNCHANGED handler_vars

Finish ==
    /\ pc = "loop"
    /\ idx > Len(content)
    /\ html_parts' = html_parts \o html_tail
    /\ html_content' = newline_join(html_parts')
    /\ pc' = "done"
    /\ UNCHANGED <<document, idx>>
    /\ UNCHANGED handler_vars

Render == RenderParagraph \/ RenderTable \/ SkipElement \/ Finish

NoEvent == EmptyDict

NoResponse == EmptyDict

Init ==
    /\ document \in Documents
    /\ html_parts = html_head(title_of(document))
    /\ idx = 1
    /\ pc = "loop"
    /\ html_content = <<>>
    /\ event = NoEvent
    /\ environ = EmptyDict
    /\ hpc = "render"
    /\ doc_name = PyNone
    /\ doc_id = PyNone
    /\ calls = <<"convert_google_doc_to_html">>
    /\ provider_error = EmptyDict
    /\ response = NoResponse

Next == Render

Spec == Init /\ [][Next]_vars

-----------------------------------------------------------------------------
(* lambda_handler: its inputs *)

Absent == [absent |-> TRUE]

Field(k, v) == IF v = Absent THEN EmptyDict ELSE (k :> v)

Events ==
    { Field("doc_name", n) @@ Field("queryStringParameters", q) @@ Field("body", b) :
        n \in {Absent, PyNone, PyStr(""), PyStr("Doc")},
        q \in {Absent, PyNone, PyDict(EmptyDict),
               PyDict([doc_name |-> PyStr("Doc")]),
               PyDict([doc_name |-> PyStr("")]),
               PyDict([other |-> PyStr("x")])},
        b \in {Absent, PyNone,
               PyStr("{\"doc_name\": \"Doc\"}"), PyStr("{}"), PyStr("not json"),
               PyDict([doc_name |-> PyStr("Doc")]), PyDict(EmptyDict)} }

Environments ==
    { (IF c = "" THEN EmptyDict ELSE ("GOOGLE_CREDENTIALS_JSON" :> c))
      @@ (IF f = "" THEN EmptyDict ELSE ("GOOGLE_DRIVE_FOLDER_ID" :> f)) :
        c \in {"", "(empty)", "not base64", "base64(not json)",
               "base64({})", "base64(service account)"},
        f \in {"", "(empty)", "folder"} }

\* os.environ.get: the value, None when unset; "(empty)" stands for a variable set to ''.
environ_get(k) ==
    IF k \in DOMAIN environ /\ environ[k] # "(empty)" THEN PyStr(environ[k])
    ELSE IF k \in DOMAIN environ THEN PyStr("")
    ELSE PyNone

\* json.loads on the texts the events carry: the value, or the exception raised.
json_loads(text) ==
    IF text = "{\"doc_name\": \"Doc\"}" THEN PyDict([doc_name |-> PyStr("Doc")])
    ELSE IF text = "{}" THEN PyDict(EmptyDict)
    ELSE [raised |-> "JSONDecodeError"]

\* json.loads(base64.b64decode(credentials_json)): the value, or the exception raised.
decode_credentials(text) ==
    IF text = "base64(service account)" THEN PyDict([type |-> PyStr("service_account")])
    ELSE IF text = "base64({})" THEN PyDict(EmptyDict)
    ELSE IF text = "base64(not json)" THEN [raised |-> "JSONDecodeError"]
    ELSE [raised |-> "binascii.Error"]

HttpStatuses == {403, 404, 500}

DriveFileLists == {<<>>, <<[id |-> "id1"]>>, <<[id |-> "id2"], [id |-> "id1"]>>}

FetchedDocuments ==
    { [title |-> <<"T">>, body |-> [content |-> c]] :
        c \in { <<>>,
                << [paragraph |-> [elements |-> <<[textRun |-> [content |-> <<"a", "\n">>]]>>]],
                   [sectionBreak |-> EmptyDict],
                   [table |-> [tableRows |-> << [tableCells |-> << [content |->
                       <<[paragraph |-> [elements |-> <<[textRun |-> [content |-> <<"c">>]]>>]]>>] >>] >>]] >> } }

-----------------------------------------------------------------------------
(* lambda_handler *)

json_headers == [Content_Type |-> "application/json"]

error_response(status, message) ==
    [statusCode |-> status, headers |-> json_headers, body |-> [error |-> message]]

Return(resp) ==
    /\ response' = resp
    /\ hpc' = "done"

\* except Exception as e (lines 182-191)
internal_server_error(exc) ==
    error_response(500, <<"Internal server error: ", exc>>)

\* except HttpError as e (lines 165-180)
http_error_response(status) ==
    error_response(status,
        IF status = 404 THEN <<"Document not found">>
        ELSE IF status = 403
        THEN <<"Access denied. Service account may not have permission to access this document or folder">>
        ELSE <<"Google API Error: ", status>>)

\* Each source tried in turn until one holds a non-empty doc_name.
extract_doc_name_fall_through(ev) ==
    IF "doc_name" \in DOMAIN ev /\ Truthy(ev["doc_name"]) THEN ev["doc_name"]
    ELSE IF /\ "queryStringParameters" \in DOMAIN ev
            /\ Truthy(ev["queryStringParameters"])
            /\ Truthy(get(ev["queryStringParameters"].dict, "doc_name", PyNone))
    THEN ev["queryStringParameters"].dict["doc_name"]
    ELSE IF "body" \in DOMAIN ev
    THEN LET body == IF "str" \in DOMAIN ev["body"] THEN json_loads(ev["body"].str)
                     ELSE ev["body"]
         IN  IF "raised" \in DOMAIN body THEN body
             ELSE IF "dict" \in DOMAIN body THEN get(body.dict, "doc_name", PyNone)
             ELSE [raised |-> "AttributeError"]
    ELSE PyNone

\* Lines 57-65: the value of doc_name, or the exception raised on the way.
extract_doc_name(ev) ==
    IF "doc_name" \in DOMAIN ev THEN ev["doc_name"]
    ELSE IF "queryStringParameters" \in DOMAIN ev /\ Truthy(ev["queryStringParameters"])
    THEN get(ev["queryStringParameters"].dict, "doc_name", PyNone)
    ELSE IF "body" \in DOMAIN ev
    THEN LET body == IF "str" \in DOMAIN ev["body"] THEN json_loads(ev["body"].str)
                     ELSE ev["body"]
         IN  IF "raised" \in DOMAIN body THEN body
             ELSE IF "dict" \in DOMAIN body THEN get(body.dict, "doc_name", PyNone)
             ELSE [raised |-> "AttributeError"]
    ELSE PyNone

ExtractDocName ==
    /\ hpc = "start"
    /\ LET v == extract_doc_name(event)
       IN  IF "raised" \in DOMAIN v
           THEN Return(internal_server_error(v.raised)) /\ UNCHANGED doc_name
           ELSE doc_name' = v /\ hpc' = "check_doc_name" /\ UNCHANGED response
    /\ UNCHANGED <<event, environ, doc_id, calls, provider_error>>
    /\ UNCHANGED render_vars

CheckDocName ==
    /\ hpc = "check_doc_name"
    /\ IF ~Truthy(doc_name)
       THEN Return(error_response(400, <<"Missing doc_name parameter">>))
       ELSE hpc' = "credentials_env" /\ UNCHANGED response
    /\ UNCHANGED <<event, environ, doc_name, doc_id, calls, provider_error>>
    /\ UNCHANGED render_vars

GetCredentialsEnv ==
    /\ hpc = "credentials_env"
    /\ IF ~Truthy(environ_get("GOOGLE_CREDENTIALS_JSON"))
       THEN Return(error_response(500, <<"GOOGLE_CREDENTIALS_JSON environment variable not set">>))
       ELSE hpc' = "folder_env" /\ UNCHANGED response
    /\ UNCHANGED <<event, environ, doc_name, doc_id, calls, provider_error>>
    /\ UNCHANGED render_vars

GetFolderEnv ==
    /\ hpc = "folder_env"
    /\ IF ~Truthy(environ_get("GOOGLE_DRIVE_FOLDER_ID"))
       THEN Return(error_response(500, <<"GOOGLE_DRIVE_FOLDER_ID environment variable not set">>))
       ELSE hpc' = "decode" /\ UNCHANGED response
    /\ UNCHANGED <<event, environ, doc_name, doc_id, calls, provider_error>>
    /\ UNCHANGED render_vars

DecodeCredentials ==
    /\ hpc = "decode"
    /\ LET credentials_data == decode_credentials(environ_get("GOOGLE_CREDENTIALS_JSON").str)
       IN  IF "raised" \in DOMAIN credentials_data
           THEN Return(error_response(500, <<"Failed to decode credentials: ", credentials_data.raised>>))
           ELSE hpc' = "credentials" /\ UNCHANGED response
    /\ UNCHANGED <<event, environ, doc_name, doc_id, calls, provider_error>>
    /\ UNCHANGED render_vars

\* Lines 119-129: from_service_account_info raises ValueError on a dict that
\* is no service account's; the exception reaches `except Exception`.
BuildCredentials ==
    /\ hpc = "credentials"
    /\ LET credentials_data == decode_credentials(environ_get("GOOGLE_CREDENTIALS_JSON").str)
       IN  IF "type" \notin DOMAIN credentials_data.dict
           THEN Return(internal_server_error("ValueError"))
           ELSE hpc' = "lookup" /\ UNCHANGED response
    /\ UNCHANGED <<event, environ, doc_name, doc_id, calls, provider_error>>
    /\ UNCHANGED render_vars

\* find_document_in_folder (lines 194-222) on what files().list().execute()
\* does: a list of files, an HttpError, or another exception.
find_document_in_folder(outcome) ==
    IF "HttpError" \in DOMAIN outcome THEN PyNone
    ELSE IF "files" \in DOMAIN outcome
    THEN IF Len(outcome.files) = 0 THEN PyNone ELSE PyStr(outcome.files[1].id)
    ELSE outcome

FindDocument ==
    /\ hpc = "lookup"
    /\ \E outcome \in {[files |-> fs] : fs \in DriveFileLists}
                      \cup {[HttpError |-> st] : st \in HttpStatuses}
                      \cup {[raised |-> "TransportError"]} :
         LET v == find_document_in_folder(outcome)
         IN  /\ provider_error' = IF "HttpError" \in DOMAIN outcome
                                  THEN [stage |-> "lookup", status |-> outcome.HttpError]
                                  ELSE provider_error
             /\ IF "raised" \in DOMAIN v
                THEN Return(internal_server_error(v.raised)) /\ UNCHANGED doc_id
                ELSE doc_id' = v /\ hpc' = "check_doc_id" /\ UNCHANGED response
    /\ calls' = Append(calls, "drive.files.list")
    /\ UNCHANGED <<event, environ, doc_name>>
    /\ UNCHANGED render_vars

CheckDocId ==
    /\ hpc = "check_doc_id"
    /\ IF ~Truthy(doc_id)
       THEN Return(error_response(404, <<"Document \"", doc_name.str, "\" not found in the specified folder">>))
       ELSE hpc' = "fetch" /\ UNCHANGED response
    /\ UNCHANGED <<event, environ, doc_name, doc_id, calls, provider_error>>
    /\ UNCHANGED render_vars

\* Lines 146-152: documents().get().execute() returns the document, which is
\* handed to convert_google_doc_to_html.
FetchDocument ==
    /\ hpc = "fetch"
    /\ \E doc \in FetchedDocuments : Enter(doc)
    /\ hpc' = "render"
    /\ calls' = calls \o <<"docs.documents.get", "convert_google_doc_to_html">>
    /\ UNCHANGED <<event, environ, doc_name, doc_id, provider_error, response>>

\* Lines 149, 165-191: documents().get().execute() raises.
FetchFails ==
    /\ hpc = "fetch"
    /\ \E outcome \in {[HttpError |-> st] : st \in HttpStatuses} \cup {[raised |-> "TransportError"]} :
         IF "HttpError" \in DOMAIN outcome
         THEN /\ provider_error' = [stage |-> "fetch", status |-> outcome.HttpError]
              /\ Return(http_error_response(outcome.HttpError))
         ELSE /\ UNCHANGED provider_error
              /\ Return(internal_server_error(outcome.raised))
    /\ calls' = Append(calls, "docs.documents.get")
    /\ UNCHANGED <<event, environ, doc_name, doc_id>>
    /\ UNCHANGED render_vars

ReturnHtml ==
    /\ hpc = "render"
    /\ pc = "done"
    /\ Return([statusCode |-> 200,
               headers |-> [Content_Type |-> "text/html",
                            Access_Control_Allow_Origin |-> "*",
                            Access_Control_Allow_Headers |-> "Content-Type",
                            Access_Control_Allow_Methods |-> "GET, POST, OPTIONS"],
               body |-> html_content])
    /\ UNCHANGED <<event, environ, doc_name, doc_id, calls, provider_error>>
    /\ UNCHANGED render_vars

HandlerInit ==
    /\ event \in Events
    /\ environ \in Environments
    /\ hpc = "start"
    /\ doc_name = PyNone
    /\ doc_id = PyNone
    /\ calls = <<>>
    /\ provider_error = EmptyDict
    /\ response = NoResponse
    /\ document = EmptyDict
    /\ html_parts = <<>>
    /\ idx = 0
    /\ pc = "idle"
    /\ html_content = <<>>

HandlerNext ==
    \/ ExtractDocName
    \/ CheckDocName
    \/ GetCredentialsEnv
    \/ GetFolderEnv
    \/ DecodeCredentials
    \/ BuildCredentials
    \/ FindDocument
    \/ CheckDocId
    \/ FetchDocument
    \/ FetchFails
    \/ Render
    \/ ReturnHtml

HandlerSpec == HandlerInit /\ [][HandlerNext]_vars

-----------------------------------------------------------------------------
(* What the claims speak of, stated over the input alone *)

RECURSIVE Flatten(_)
Flatten(ss) ==
    IF Len(ss) = 0 THEN <<>>
    ELSE Flatten(SubSeq(ss, 1, Len(ss) - 1)) \o ss[Len(ss)]

NonBlankPositions(s) == {k \in 1..Len(s) : s[k] \notin {" ", "\n"}}

IsBlank(s) == NonBlankPositions(s) = {}

Trimmed(s) ==
    IF IsBlank(s) THEN <<>>
    ELSE LET lo == CHOOSE k \in NonBlankPositions(s) : \A j \in NonBlankPositions(s) : k <= j
             hi == CHOOSE k \in NonBlankPositions(s) : \A j \in NonBlankPositions(s) : k >= j
         IN  SubSeq(s, lo, hi)

RunsOf(paragraph) ==
    LET es == IF "elements" \in DOMAIN paragraph THEN paragraph.elements ELSE <<>>
        sel == SelectSeq(es, LAMBDA e : "textRun" \in DOMAIN e)
    IN  [k \in 1..Len(sel) |-> sel[k].textRun]

RunText(run) == IF "content" \in DOMAIN run THEN run.content ELSE <<>>

HasFlag(run, f) ==
    /\ "textStyle" \in DOMAIN run
    /\ f \in DOMAIN run.textStyle
    /\ run.textStyle[f] = TRUE

PlainText(paragraph) ==
    LET runs == RunsOf(paragraph)
    IN  Flatten([k \in 1..Len(runs) |-> RunText(runs[k])])

B(s) == <<"<span class=\"bold\">">> \o s \o <<"</span>">>
I(s) == <<"<span class=\"italic\">">> \o s \o <<"</span>">>
U(s) == <<"<span class=\"underline\">">> \o s \o <<"</span>">>

ExpectedMarkup(run) ==
    LET t == RunText(run)
        b == HasFlag(run, "bold")
        i == HasFlag(run, "italic")
        u == HasFlag(run, "underline")
    IN  CASE ~b /\ ~i /\ ~u -> t
          []  b /\ ~i /\ ~u -> B(t)
          [] ~b /\  i /\ ~u -> I(t)
          [] ~b /\ ~i /\  u -> U(t)
          []  b /\  i /\ ~u -> I(B(t))
          []  b /\ ~i /\  u -> U(B(t))
          [] ~b /\  i /\  u -> U(I(t))
          []  b /\  i /\  u -> U(I(B(t)))

StyleOf(paragraph) ==
    IF "paragraphStyle" \in DOMAIN paragraph
       /\ "namedStyleType" \in DOMAIN paragraph.paragraphStyle
    THEN paragraph.paragraphStyle.namedStyleType
    ELSE "(absent)"

ExpectedTag(paragraph) ==
    CASE StyleOf(paragraph) = "HEADING_1" -> "h1"
      [] StyleOf(paragraph) = "HEADING_2" -> "h2"
      [] StyleOf(paragraph) = "HEADING_3" -> "h3"
      [] OTHER -> "p"

OpenToken(tag) ==
    CASE tag = "h1" -> "<h1>" [] tag = "h2" -> "<h2>" [] tag = "h3" -> "<h3>" [] OTHER -> "<p>"

CloseToken(tag) ==
    CASE tag = "h1" -> "</h1>" [] tag = "h2" -> "</h2>" [] tag = "h3" -> "</h3>" [] OTHER -> "</p>"

NodeContent(node) == SubSeq(node, 2, Len(node) - 1)

HeadLen == Len(html_head(<<>>))

Body == SubSeq(html_parts, HeadLen + 1, Len(html_parts))

Appended == SubSeq(html_parts', Len(html_parts) + 1, Len(html_parts'))

AtParagraph ==
    pc = "loop" /\ idx <= Len(content) /\ "paragraph" \in DOMAIN content[idx]

AtTable ==
    /\ pc = "loop" /\ idx <= Len(content)
    /\ "paragraph" \notin DOMAIN content[idx]
    /\ "table" \in DOMAIN content[idx]

\* The state right after the loop handled element k of the document.
JustRendered(k) == pc = "loop" /\ idx = k + 1 /\ k \in 1..Len(content)

-----------------------------------------------------------------------------
\* C1: a paragraph whose plain text (the concatenation of the text of its
\* runs) is empty after trimming adds no node to the output, whatever its
\* named style and whatever the bold/italic/underline flags of its runs.
C1_BlankParagraphEmitsNothing ==
    [][ (AtParagraph /\ IsBlank(PlainText(content[idx].paragraph)))
            => html_parts' = html_parts ]_vars

\* C2 as stated: the node of a paragraph whose trimmed plain text is not
\* empty holds the concatenation of the markup of its runs, untrimmed.
C2_ContentUntrimmed ==
    [][ (AtParagraph /\ ~IsBlank(PlainText(content[idx].paragraph)))
            => LET runs == RunsOf(content[idx].paragraph)
               IN  /\ Len(Appended) = 1
                   /\ NodeContent(Appended[1])
                        = Flatten([k \in 1..Len(runs) |-> styled_text(runs[k])]) ]_vars

\* C2 as amended: the node of a paragraph whose trimmed plain text is not
\* empty holds the concatenation, in order, of the markup of its runs with
\* the leading and trailing whitespace of the concatenation removed.
C2_ContentTrimmedAsWhole ==
    [][ (AtParagraph /\ ~IsBlank(PlainText(content[idx].paragraph)))
            => LET runs == RunsOf(content[idx].paragraph)
               IN  /\ Len(Appended) = 1
                   /\ NodeContent(Appended[1])
                        = Trimmed(Flatten([k \in 1..Len(runs) |-> styled_text(runs[k])])) ]_vars

C2_Witness ==
    /\ JustRendered(1)
    /\ "paragraph" \in DOMAIN content[1]
    /\ RunsOf(content[1].paragraph)
         = << [content |-> <<" ", "a", "\n">>],
              [content |-> <<"b", " ">>,
               textStyle |-> [bold |-> TRUE, italic |-> FALSE, underline |-> TRUE]] >>
    /\ Body = << <<"<p>", "a", "\n", "<span class=\"underline\">", "<span class=\"bold\">",
                   "b", " ", "</span>", "</span>", "</p>">> >>

\* C4: the markup of a run wraps its text with the wrappers of exactly the
\* flags that are set, bold innermost, italic around it, underline outermost;
\* a paragraph of one flagged run is emitted with exactly that markup.
C4_StyleNesting ==
    [][ AtParagraph
            => LET runs == RunsOf(content[idx].paragraph)
               IN  /\ \A k \in 1..Len(runs) : styled_text(runs[k]) = ExpectedMarkup(runs[k])
                   /\ (Len(runs) = 1 /\ \E f \in {"bold", "italic", "underline"} : HasFlag(runs[1], f))
                        => /\ Len(Appended) = 1
                           /\ NodeContent(Appended[1]) = ExpectedMarkup(runs[1]) ]_vars

C4_Witness ==
    /\ JustRendered(1)
    /\ "paragraph" \in DOMAIN content[1]
    /\ RunsOf(content[1].paragraph)
         = << [content |-> <<"a">>,
               textStyle |-> [bold |-> TRUE, italic |-> TRUE, underline |-> TRUE]] >>
    /\ NodeContent(Body[1])
         = << "<span class=\"underline\">", "<span class=\"italic\">", "<span class=\"bold\">",
              "a", "</span>", "</span>", "</span>" >>

\* C7: a paragraph whose text is not empty is emitted as exactly one node
\* whose tag is h1, h2 or h3 for HEADING_1, HEADING_2 or HEADING_3 and p for
\* NORMAL_TEXT, an absent style and every other value.
C7_TagByNamedStyle ==
    [][ (AtParagraph /\ ~IsBlank(PlainText(content[idx].paragraph)))
            => /\ Len(Appended) = 1
               /\ Head(Appended[1]) = OpenToken(ExpectedTag(content[idx].paragraph))
               /\ Appended[1][Len(Appended[1])]
                    = CloseToken(ExpectedTag(content[idx].paragraph)) ]_vars

C7_Witness ==
    /\ JustRendered(1)
    /\ "paragraph" \in DOMAIN content[1]
    /\ StyleOf(content[1].paragraph) = "TITLE"
    /\ ~IsBlank(PlainText(content[1].paragraph))
    /\ Len(Body) = 1
    /\ Head(Body[1]) = "<p>"

-----------------------------------------------------------------------------
(* Tables, stated over the input alone *)

RowsOf(table) == IF "tableRows" \in DOMAIN table THEN table.tableRows ELSE <<>>

CellsOf(row) == IF "tableCells" \in DOMAIN row THEN row.tableCells ELSE <<>>

BlocksOf(cell) == IF "content" \in DOMAIN cell THEN cell.content ELSE <<>>

CellPlainText(cell) ==
    LET blocks == BlocksOf(cell)
    IN  Trimmed(Flatten([k \in 1..Len(blocks) |->
            IF "paragraph" \in DOMAIN blocks[k] THEN PlainText(blocks[k].paragraph) ELSE <<>>]))

ExpectedRow(row) ==
    LET cells == CellsOf(row)
    IN  << <<"<tr>">> >>
        \o [k \in 1..Len(cells) |-> <<"<td>">> \o CellPlainText(cells[k]) \o <<"</td>">>]
        \o << <<"</tr>">> >>

ExpectedTable(table) ==
    LET rows == RowsOf(table)
    IN  << <<"<table border=\"1\" cellpadding=\"5\" cellspacing=\"0\">">> >>
        \o Flatten([k \in 1..Len(rows) |-> ExpectedRow(rows[k])])
        \o << <<"</table>">> >>

RECURSIVE CellCount(_)
CellCount(rows) ==
    IF Len(rows) = 0 THEN 0 ELSE Len(CellsOf(Head(rows))) + CellCount(Tail(rows))

LinesStarting(parts, token) == SelectSeq(parts, LAMBDA line : Head(line) = token)

StyleTokens ==
    {"<span class=\"bold\">", "<span class=\"italic\">", "<span class=\"underline\">",
     "</span>", "<h1>", "</h1>", "<h2>", "</h2>", "<h3>", "</h3>", "<p>", "</p>"}

\* C6: a table is emitted as one table node with one row node per row and
\* one cell node per cell, in input order; a cell node holds the plain text
\* of every run of every paragraph block of the cell, concatenated and then
\* trimmed once, with no style wrapper and no heading or paragraph tag.
C6_TableRendering ==
    [][ AtTable
            => LET table == content[idx].table
               IN  /\ Appended = ExpectedTable(table)
                   /\ Len(LinesStarting(Appended, "<tr>")) = Len(RowsOf(table))
                   /\ Len(LinesStarting(Appended, "<td>")) = CellCount(RowsOf(table))
                   /\ \A n \in 1..Len(Appended) : \A k \in 1..Len(Appended[n]) :
                          Appended[n][k] \notin StyleTokens ]_vars

C6_Witness ==
    /\ JustRendered(1)
    /\ "table" \in DOMAIN content[1]
    /\ Len(RowsOf(content[1].table)) = 1
    /\ Len(CellsOf(content[1].table.tableRows[1])) = 1
    /\ Len(BlocksOf(content[1].table.tableRows[1].tableCells[1])) = 2
    /\ Body = << <<"<table border=\"1\" cellpadding=\"5\" cellspacing=\"0\">">>,
                 <<"<tr>">>, <<"<td>", "a", " ", "b", "</td>">>, <<"</tr>">>,
                 <<"</table>">> >>

\* C5: the nodes emitted after the title heading are, at every point of the
\* loop, the nodes of the elements handled so far in the order of the
\* elements, each element's nodes once; at the end they are followed by the
\* closing tags only; the cell nodes of a table are its cells in row-major
\* input order.
C5_OrderPreserved ==
    /\ pc = "loop"
         => Body = Flatten([k \in 1..(idx - 1) |-> element_parts(content[k])])
    /\ pc = "done"
         => Body = Flatten([k \in 1..Len(content) |-> element_parts(content[k])]) \o html_tail
    /\ \A k \in 1..Len(content) :
         ("paragraph" \notin DOMAIN content[k] /\ "table" \in DOMAIN content[k])
            => LET rows == RowsOf(content[k].table)
               IN  LinesStarting(element_parts(content[k]), "<td>")
                     = Flatten([r \in 1..Len(rows) |->
                          [c \in 1..Len(CellsOf(rows[r])) |->
                              <<"<td>">> \o CellPlainText(CellsOf(rows[r])[c]) \o <<"</td>">>]])

C5_Witness ==
    /\ pc = "done"
    /\ Len(content) = 2
    /\ "paragraph" \in DOMAIN content[1]
    /\ "table" \in DOMAIN content[2]
    /\ Body = << <<"<h2>", "<span class=\"bold\">", "b", "</span>", "</h2>">>,
                 <<"<table border=\"1\" cellpadding=\"5\" cellspacing=\"0\">">>,
                 <<"<tr>">>, <<"<td>", "c", "</td>">>, <<"</tr>">>, <<"</table>">>,
                 <<"</body>">>, <<"</html>">> >>

-----------------------------------------------------------------------------
(* A document with every absent optional field put in, empty *)

FillRun(run) ==
    [content |-> IF "content" \in DOMAIN run THEN run.content ELSE <<>>,
     textStyle |-> IF "textStyle" \in DOMAIN run THEN run.textStyle ELSE EmptyDict]

FillParaElement(e) ==
    IF "textRun" \in DOMAIN e THEN [textRun |-> FillRun(e.textRun)] ELSE e

FillParagraph(p) ==
    LET es == IF "elements" \in DOMAIN p THEN p.elements ELSE <<>>
    IN  [elements |-> [k \in 1..Len(es) |-> FillParaElement(es[k])],
         paragraphStyle |-> IF "paragraphStyle" \in DOMAIN p THEN p.paragraphStyle ELSE EmptyDict]

FillBlock(b) ==
    IF "paragraph" \in DOMAIN b THEN [paragraph |-> FillParagraph(b.paragraph)] ELSE b

FillCell(c) ==
    [content |-> [k \in 1..Len(BlocksOf(c)) |-> FillBlock(BlocksOf(c)[k])]]

FillRow(r) ==
    [tableCells |-> [k \in 1..Len(CellsOf(r)) |-> FillCell(CellsOf(r)[k])]]

FillTable(t) ==
    [tableRows |-> [k \in 1..Len(RowsOf(t)) |-> FillRow(RowsOf(t)[k])]]

FillElement(e) ==
    IF "paragraph" \in DOMAIN e THEN [paragraph |-> FillParagraph(e.paragraph)]
    ELSE IF "table" \in DOMAIN e THEN [table |-> FillTable(e.table)]
    ELSE e

FillDocument(doc) ==
    LET body == IF "body" \in DOMAIN doc THEN doc.body ELSE EmptyDict
        elems == IF "content" \in DOMAIN body THEN body.content ELSE <<>>
        filled == [body |-> [content |-> [k \in 1..Len(elems) |-> FillElement(elems[k])]]]
    IN  IF "title" \in DOMAIN doc THEN [title |-> doc.title] @@ filled ELSE filled

MissesAField(doc) == FillDocument(doc) # doc

\* C8: rendering ends, for every document with any of its optional fields
\* absent, in a complete markup document (wrapper, title heading, closing
\* tags) that is the one rendered for the same document with each absent
\* field present and empty.
C8_AbsentFieldsRenderEmpty ==
    pc = "done"
        => /\ html_content = convert_google_doc_to_html(FillDocument(document))
           /\ Len(html_parts) >= HeadLen + 2
           /\ SubSeq(html_parts, 1, 3) = << <<"<!DOCTYPE html>">>, <<"<html>">>, <<"<head>">> >>
           /\ Head(html_parts[HeadLen]) = "<h1>"
           /\ SubSeq(html_parts, Len(html_parts) - 1, Len(html_parts))
                = << <<"</body>">>, <<"</html>">> >>
           /\ html_content = Flatten([k \in 1..Len(html_parts) |->
                                (IF k = 1 THEN <<>> ELSE <<"\n">>) \o html_parts[k]])

C8_Witness ==
    /\ pc = "done"
    /\ content = << [paragraph |-> [elements |-> << [textRun |-> [content |-> <<"a">>]] >>]] >>
    /\ MissesAField(document)
    /\ Body = << <<"<p>", "a", "</p>">>, <<"</body>">>, <<"</html>">> >>

-----------------------------------------------------------------------------
(* lambda_handler, stated over the event, the environment and the calls *)

Called(c) == \E k \in 1..Len(calls) : calls[k] = c

ConfigurationUsable ==
    /\ "GOOGLE_CREDENTIALS_JSON" \in DOMAIN environ
    /\ environ["GOOGLE_CREDENTIALS_JSON"] \in {"base64({})", "base64(service account)"}
    /\ "GOOGLE_DRIVE_FOLDER_ID" \in DOMAIN environ
    /\ environ["GOOGLE_DRIVE_FOLDER_ID"] # "(empty)"

\* Whether a value of the event (the query parameters or the body) holds a
\* non-empty doc_name.
CarriesDocName(v) ==
    \/ "dict" \in DOMAIN v /\ "doc_name" \in DOMAIN v.dict /\ Truthy(v.dict["doc_name"])
    \/ "str" \in DOMAIN v /\ v.str = "{\"doc_name\": \"Doc\"}"

NoDocNameIn(ev) ==
    /\ "doc_name" \in DOMAIN ev => ~Truthy(ev["doc_name"])
    /\ "queryStringParameters" \in DOMAIN ev => ~CarriesDocName(ev["queryStringParameters"])
    /\ "body" \in DOMAIN ev => ~CarriesDocName(ev["body"])

MissingDocNameResponse ==
    /\ hpc = "done"
    /\ response.statusCode = 400
    /\ response.body = [error |-> <<"Missing doc_name parameter">>]
    /\ calls = <<>>

\* C3: a run in which the provider raised an HttpError, during the lookup or
\* during the fetch, ends in a response with that error's status (403 for an
\* access-denied failure), never in the 404 "not found in the specified
\* folder" response of a lookup that matched no document.
C3_ProviderFailureSurfaced ==
    (hpc = "done" /\ "status" \in DOMAIN provider_error)
        => /\ response.statusCode = provider_error.status
           /\ response.body.error[1] # "Document \""

\* The order of the steps of lambda_handler: the lookup after a non-empty
\* doc_name and a usable configuration, the fetch after a lookup that gave a
\* document id, the renderer after a fetch that returned; every run ends in
\* a response, with status 200 only after lookup, fetch and render.
StepsOrdered ==
    /\ Called("drive.files.list") => Truthy(doc_name) /\ ConfigurationUsable
    /\ Called("docs.documents.get")
         => /\ calls[1] = "drive.files.list"
            /\ "str" \in DOMAIN doc_id /\ doc_id.str # ""
            /\ "stage" \in DOMAIN provider_error => provider_error.stage = "fetch"
    /\ Called("convert_google_doc_to_html")
         => /\ calls = <<"drive.files.list", "docs.documents.get", "convert_google_doc_to_html">>
            /\ document \in FetchedDocuments
            /\ provider_error = EmptyDict
    /\ hpc = "done" <=> "statusCode" \in DOMAIN response
    /\ (hpc = "done" /\ response.statusCode = 200)
         => /\ Called("convert_google_doc_to_html")
            /\ pc = "done"
            /\ response.body = html_content

\* C9: the steps of lambda_handler are ordered (lookup after doc_name,
\* configuration and credentials; fetch after a document id; render after the
\* fetch; 200 only after all three; every run returns a response), and an
\* event with no doc_name gets the 400 response, whatever the configuration.
C9_OrderedAndMissingDocNameIs400 ==
    /\ StepsOrdered
    /\ (hpc = "done" /\ NoDocNameIn(event)) => response.statusCode = 400

ChosenSource(ev) ==
    IF "doc_name" \in DOMAIN ev THEN "doc_name"
    ELSE IF /\ "queryStringParameters" \in DOMAIN ev
            /\ "dict" \in DOMAIN ev["queryStringParameters"]
            /\ DOMAIN ev["queryStringParameters"].dict # {}
    THEN "queryStringParameters"
    ELSE IF "body" \in DOMAIN ev THEN "body"
    ELSE "(none)"

SourceValue(ev) ==
    CASE ChosenSource(ev) = "doc_name" -> ev["doc_name"]
      [] ChosenSource(ev) = "queryStringParameters" ->
            IF "doc_name" \in DOMAIN ev["queryStringParameters"].dict
            THEN ev["queryStringParameters"].dict["doc_name"] ELSE PyNone
      [] ChosenSource(ev) = "body" ->
            IF "dict" \in DOMAIN ev["body"] /\ "doc_name" \in DOMAIN ev["body"].dict
            THEN ev["body"].dict["doc_name"]
            ELSE IF CarriesDocName(ev["body"]) THEN PyStr("Doc") ELSE PyNone
      [] OTHER -> PyNone

\* C10: doc_name is the value held by the first source that applies (the
\* top-level key, else non-empty query parameters, else the body) and by no
\* later one: an event whose top-level doc_name is empty, or whose non-empty
\* query parameters hold no doc_name, gets the 400 'Missing doc_name
\* parameter' response, also when a later source holds a doc_name.
C10_FirstSourceOnly ==
    /\ hpc \notin {"start", "done"} => doc_name = SourceValue(event)
    /\ Called("drive.files.list") => doc_name = SourceValue(event)
    /\ (hpc = "done" /\ ChosenSource(event) = "doc_name" /\ ~Truthy(event["doc_name"]))
         => MissingDocNameResponse
    /\ (hpc = "done" /\ ChosenSource(event) = "queryStringParameters"
                     /\ ~CarriesDocName(event["queryStringParameters"]))
         => MissingDocNameResponse

C10_Witness ==
    /\ MissingDocNameResponse
    /\ "doc_name" \in DOMAIN event /\ event["doc_name"] = PyStr("")
    /\ "queryStringParameters" \in DOMAIN event /\ CarriesDocName(event["queryStringParameters"])
    /\ "body" \in DOMAIN event /\ CarriesDocName(event["body"])

====
